---- MODULE Spec2Model ----
(***************************************************************************)
(* A model of src/database.py: the five relations of the shared-ledger     *)
(* store, the SQLite constraints the schema declares on them, and the      *)
(* module's functions, once as whole calls (Spec) and once statement by    *)
(* statement under concurrent callers (SpecConc).                          *)
(*                                                                         *)
(* Text is a sequence of one-character strings, so that strip(), slicing   *)
(* and formatting are computed and not assumed.  An optional argument is   *)
(* a record [some, val]; None is the record with some = FALSE.             *)
(***************************************************************************)
EXTENDS Integers, Sequences, FiniteSets, TLC

VARIABLES db, last, pc, loc, writer, wdb

vars == <<db, last, pc, loc, writer, wdb>>

(***************************************************************************)
(* Bounds of the model.                                                    *)
(***************************************************************************)
MaxUsers == 2
MaxLedgers == 2
MaxTx == 2
NProcs == 2
ConcMaxLedgers == 1
ConcMaxTx == 2
NamesMaxLedgers == 1

UserIds == 1..MaxUsers
LedgerIds == 1..MaxLedgers
TxIds == 1..MaxTx
Procs == 1..NProcs
ConcLedgerIds == 1..ConcMaxLedgers
ConcTxIds == 1..ConcMaxTx
NamesLedgerIds == 1..NamesMaxLedgers

(***************************************************************************)
(* Text                                                                    *)
(***************************************************************************)
None == [some |-> FALSE, val |-> <<>>]

Some(s) == [some |-> TRUE, val |-> s]

IsSpace(c) == c \in {" ", "\t", "\n"}

RECURSIVE lstrip(_)
lstrip(s) ==
  IF s = <<>> THEN <<>>
  ELSE IF IsSpace(Head(s)) THEN lstrip(Tail(s)) ELSE s

RECURSIVE rstrip(_)
rstrip(s) ==
  IF s = <<>> THEN <<>>
  ELSE IF IsSpace(s[Len(s)]) THEN rstrip(SubSeq(s, 1, Len(s) - 1)) ELSE s

\* str.strip()
strip(s) == rstrip(lstrip(s))

\* s[a:b] of Python, for 0 <= a <= b
Slice(s, a, b) ==
  LET hi == IF b > Len(s) THEN Len(s) ELSE b
  IN  IF a >= hi THEN <<>> ELSE SubSeq(s, a + 1, hi)

Digits == <<"0", "1", "2", "3", "4", "5", "6", "7", "8", "9">>

RECURSIVE ZeroPad(_, _)
\* the decimal digits of n, zero-padded to width w (%Y, %m, %d, %H, %M, %S)
ZeroPad(n, w) ==
  IF w = 0 THEN <<>>
  ELSE ZeroPad(n \div 10, w - 1) \o <<Digits[(n % 10) + 1]>>

(***************************************************************************)
(* The clock: time.gmtime() returns one of these instants.                 *)
(***************************************************************************)
Instants ==
  << [year |-> 2025, mon |-> 9, mday |-> 30, hour |-> 23, min |-> 59, sec |-> 58],
     [year |-> 2025, mon |-> 10, mday |-> 1, hour |-> 0, min |-> 0, sec |-> 7] >>

Clock == {Instants[i] : i \in 1..Len(Instants)}

\* time.strftime("%Y-%m-%d", t)
strftime_date(t) ==
  ZeroPad(t.year, 4) \o <<"-">> \o ZeroPad(t.mon, 2) \o <<"-">> \o ZeroPad(t.mday, 2)

\* time.strftime("%Y-%m-%d %H:%M:%S", t)
strftime_datetime(t) ==
  strftime_date(t) \o <<" ">> \o ZeroPad(t.hour, 2) \o <<":">>
    \o ZeroPad(t.min, 2) \o <<":">> \o ZeroPad(t.sec, 2)

(***************************************************************************)
(* The relations.  users is the sequence of its rows in rowid order (the   *)
(* order a scan without ORDER BY returns them); the other four relations   *)
(* are multisets of rows, a function from each row present to the number   *)
(* of its copies.  Uniqueness of a key is therefore something the INSERT   *)
(* has to enforce, as in the schema.                                       *)
(***************************************************************************)
NoRows == [r \in {} |-> 0]

Rows(rel) == DOMAIN rel

AddRow(rel, row) ==
  [r \in DOMAIN rel \cup {row} |->
     IF r \in DOMAIN rel THEN rel[r] + (IF r = row THEN 1 ELSE 0) ELSE 1]

\* DELETE FROM rel, of the rows in gone: the rows that stay
Keep(rel, gone) == [r \in DOMAIN rel \ gone |-> rel[r]]

UserRows(d) == {d.users[i] : i \in 1..Len(d.users)}

\* the same for the sequence of users
SelectSeq2(s, gone) ==
  LET F[i \in 0..Len(s)] ==
        IF i = 0 THEN <<>>
        ELSE IF s[i] \in gone THEN F[i - 1] ELSE Append(F[i - 1], s[i])
  IN  F[Len(s)]

EmptyDB ==
  [users |-> <<>>, ledgers |-> NoRows, user_ledgers |-> NoRows,
   transactions |-> NoRows, user_transactions |-> NoRows]

UserExists(d, u) == \E r \in UserRows(d) : r.user_id = u

LedgerExists(d, l) == \E r \in Rows(d.ledgers) : r.ledger_id = l

TxExists(d, t) == \E r \in Rows(d.transactions) : r.transaction_id = t

(***************************************************************************)
(* INSERT under the schema's PRIMARY KEY and FOREIGN KEY clauses, with     *)
(* PRAGMA foreign_keys = ON.  A statement returns [err, db]: on a          *)
(* constraint failure SQLite raises IntegrityError and the statement has   *)
(* changed nothing.                                                        *)
(***************************************************************************)
OK == "ok"

IntegrityError == "IntegrityError"

LedgerNotFound == "OperationalError: ledger_id not found"

UserNotFound == "OperationalError: user_id not found"

DatabaseLocked == "OperationalError: database is locked"

\* what `except sqlite3.OperationalError` catches
OperationalError == {LedgerNotFound, UserNotFound, DatabaseLocked}

Done(d) == [err |-> OK, db |-> d]

Failed(e, d) == [err |-> e, db |-> d]

InsertUsers(d, row) ==
  IF UserExists(d, row.user_id) THEN Failed(IntegrityError, d)
  ELSE Done([d EXCEPT !.users = Append(@, row)])

\* InsertLedgers as INSERT OR REPLACE: a ledger of the same ledger_id is deleted first
InsertLedgers_OrReplace(d, row) ==
  LET ls == {r \in Rows(d.ledgers) : r.ledger_id = row.ledger_id}
      uls == {r \in Rows(d.user_ledgers) : r.ledger_id = row.ledger_id}
  IN  IF ~UserExists(d, row.creator_id) THEN Failed(IntegrityError, d)
      ELSE Done([d EXCEPT !.ledgers = AddRow(Keep(@, ls), row),
                          !.user_ledgers = Keep(@, uls)])

InsertLedgers(d, row) ==
  IF LedgerExists(d, row.ledger_id) \/ ~UserExists(d, row.creator_id)
  THEN Failed(IntegrityError, d)
  ELSE Done([d EXCEPT !.ledgers = AddRow(@, row)])

\* InsertUserLedgers without the PRIMARY KEY (user_id, ledger_id)
InsertUserLedgers_NoPrimaryKey(d, row) ==
  IF ~UserExists(d, row.user_id) \/ ~LedgerExists(d, row.ledger_id)
  THEN Failed(IntegrityError, d)
  ELSE Done([d EXCEPT !.user_ledgers = AddRow(@, row)])

InsertUserLedgers(d, row) ==
  IF \/ row \in Rows(d.user_ledgers)
     \/ ~UserExists(d, row.user_id)
     \/ ~LedgerExists(d, row.ledger_id)
  THEN Failed(IntegrityError, d)
  ELSE Done([d EXCEPT !.user_ledgers = AddRow(@, row)])

\* InsertTransactions without FOREIGN KEY (ledger_id) REFERENCES ledgers
InsertTransactions_NoLedgerKey(d, row) ==
  IF TxExists(d, row.transaction_id) \/ ~UserExists(d, row.payer_id)
  THEN Failed(IntegrityError, d)
  ELSE Done([d EXCEPT !.transactions = AddRow(@, row)])

InsertTransactions(d, row) ==
  IF \/ TxExists(d, row.transaction_id)
     \/ ~LedgerExists(d, row.ledger_id)
     \/ ~UserExists(d, row.payer_id)
  THEN Failed(IntegrityError, d)
  ELSE Done([d EXCEPT !.transactions = AddRow(@, row)])

InsertUserTransactions(d, row) ==
  IF \/ row \in Rows(d.user_transactions)
     \/ ~UserExists(d, row.user_id)
     \/ ~TxExists(d, row.transaction_id)
  THEN Failed(IntegrityError, d)
  ELSE Done([d EXCEPT !.user_transactions = AddRow(@, row)])

(***************************************************************************)
(* DELETE under the schema's ON DELETE actions.                            *)
(***************************************************************************)
\* DELETE FROM transactions WHERE transaction_id = t
DeleteTransactions(d, t) ==
  LET txs == {r \in Rows(d.transactions) : r.transaction_id = t}
      uts == {r \in Rows(d.user_transactions) : r.transaction_id = t}
  IN  Done([d EXCEPT !.transactions = Keep(@, txs),
                     !.user_transactions = Keep(@, uts)])

\* DeleteLedgers with no ON DELETE CASCADE from transactions to user_transactions
DeleteLedgers_NoLinkCascade(d, l) ==
  LET ls == {r \in Rows(d.ledgers) : r.ledger_id = l}
      uls == {r \in Rows(d.user_ledgers) : r.ledger_id = l}
      txs == {r \in Rows(d.transactions) : r.ledger_id = l}
  IN  Done([d EXCEPT !.ledgers = Keep(@, ls),
                     !.user_ledgers = Keep(@, uls),
                     !.transactions = Keep(@, txs)])

\* DELETE FROM ledgers WHERE ledger_id = l
DeleteLedgers(d, l) ==
  LET ls == {r \in Rows(d.ledgers) : r.ledger_id = l}
      uls == {r \in Rows(d.user_ledgers) : r.ledger_id = l}
      txs == {r \in Rows(d.transactions) : r.ledger_id = l}
      uts == {r \in Rows(d.user_transactions) :
                \E x \in txs : x.transaction_id = r.transaction_id}
  IN  Done([d EXCEPT !.ledgers = Keep(@, ls),
                     !.user_ledgers = Keep(@, uls),
                     !.transactions = Keep(@, txs),
                     !.user_transactions = Keep(@, uts)])

\* DeleteUsers with no ON DELETE RESTRICT on transactions.payer_id
DeleteUsers_NoPayerRestrict(d, u) ==
  IF \E r \in Rows(d.ledgers) : r.creator_id = u
  THEN Failed(IntegrityError, d)
  ELSE LET us == {r \in UserRows(d) : r.user_id = u}
           uls == {r \in Rows(d.user_ledgers) : r.user_id = u}
           uts == {r \in Rows(d.user_transactions) : r.user_id = u}
       IN  Done([d EXCEPT !.users = SelectSeq2(@, us),
                          !.user_ledgers = Keep(@, uls),
                          !.user_transactions = Keep(@, uts)])

\* DELETE FROM users WHERE user_id = u
DeleteUsers(d, u) ==
  IF \/ \E r \in Rows(d.ledgers) : r.creator_id = u
     \/ \E r \in Rows(d.transactions) : r.payer_id = u
  THEN Failed(IntegrityError, d)
  ELSE LET us == {r \in UserRows(d) : r.user_id = u}
           uls == {r \in Rows(d.user_ledgers) : r.user_id = u}
           uts == {r \in Rows(d.user_transactions) : r.user_id = u}
       IN  Done([d EXCEPT !.users = SelectSeq2(@, us),
                          !.user_ledgers = Keep(@, uls),
                          !.user_transactions = Keep(@, uts)])

(***************************************************************************)
(* The functions of the module as whole calls on a database d.  A call     *)
(* returns [err, val, db]: `with _connect(...) as conn` commits when the   *)
(* block ends normally and rolls back when it raises, so a call that       *)
(* raises returns the database it started from.                            *)
(***************************************************************************)
NoVal == [none |-> TRUE]

Return(v, d) == [err |-> OK, val |-> v, db |-> d]

Raise(e, d) == [err |-> e, val |-> NoVal, db |-> d]

register_user(d, user_id, user_name, hashed_password) ==
  LET ins == InsertUsers(d, [user_id |-> user_id, user_name |-> user_name,
                             hashed_password |-> hashed_password])
  IN  IF ins.err # OK THEN Raise(ins.err, d)
      ELSE Return([user_id |-> user_id], ins.db)

\* SelectUserByName that returns the match with the smallest user_id
SelectUserByName_ByUserId(d, user_name) ==
  LET hits == {r \in UserRows(d) : r.user_name = user_name}
  IN  IF hits = {} THEN <<>>
      ELSE <<CHOOSE r \in hits : \A x \in hits : r.user_id <= x.user_id>>

\* SELECT ... FROM users WHERE user_name = ? LIMIT 1: the first match in rowid order
SelectUserByName(d, user_name) ==
  LET hits == {i \in 1..Len(d.users) : d.users[i].user_name = user_name}
  IN  IF hits = {} THEN <<>>
      ELSE <<d.users[CHOOSE i \in hits : \A j \in hits : i <= j]>>

login(d, user_name, hashed_password) ==
  LET row == SelectUserByName(d, user_name)
  IN  IF row = <<>> THEN Return(None, d)
      ELSE IF row[1].hashed_password = hashed_password
           THEN Return(Some(row[1].user_id), d)
           ELSE Return(None, d)

\* SELECT user_name FROM users WHERE user_id = ? LIMIT 1
SelectUserName(d, user_id) ==
  LET hits == {i \in 1..Len(d.users) : d.users[i].user_id = user_id}
  IN  IF hits = {} THEN <<>>
      ELSE <<d.users[CHOOSE i \in hits : \A j \in hits : i <= j].user_name>>

\* " 的账本 ", one entry per character
DefaultNameInfix == <<" ", "U+7684", "U+8D26", "U+672C", " ">>

\* NameMissing without the strip(): a whitespace-only name counts as given
NameMissing_NoStrip(ledger_name) ==
  \/ ~ledger_name.some
  \/ ledger_name.val = <<>>

\* `not ledger_name or ledger_name.strip() == ""`
NameMissing(ledger_name) ==
  \/ ~ledger_name.some
  \/ ledger_name.val = <<>>
  \/ strip(ledger_name.val) = <<>>

DefaultLedgerName(creator_name, now_date) ==
  creator_name \o DefaultNameInfix \o now_date

\* the row add_ledger inserts, once it has read the creator's name
LedgerRow(ledger_id, now, user_id, creator_name, ledger_name) ==
  LET now_date == strftime_date(now)
      now_datetime == strftime_datetime(now)
  IN  [ledger_id |-> ledger_id, creator_id |-> user_id,
       ledger_name |-> IF NameMissing(ledger_name)
                       THEN DefaultLedgerName(creator_name, now_date)
                       ELSE ledger_name.val,
       create_time |-> now_datetime]

add_ledger(d, ledger_id, now, user_id, ledger_name) ==
  LET row == SelectUserName(d, user_id)
  IN  IF row = <<>> THEN Raise(UserNotFound, d)
      ELSE LET ins == InsertLedgers(d, LedgerRow(ledger_id, now, user_id, row[1], ledger_name))
           IN  IF ins.err # OK THEN Raise(ins.err, d)
               ELSE Return([ledger_id |-> ledger_id], ins.db)

TxRow(tx_id, now, ledger_id, payer_id, price, description, payment_time) ==
  [transaction_id |-> tx_id, ledger_id |-> ledger_id, payer_id |-> payer_id,
   price |-> price, description |-> description,
   payment_time |-> IF ~payment_time.some THEN strftime_date(now) ELSE payment_time.val]

\* add_transaction without the INSERT INTO user_transactions of the payer
add_transaction_NoPayerLink(d, tx_id, now, ledger_id, payer_id, price, description, payment_time) ==
  IF ~LedgerExists(d, ledger_id) THEN Raise(LedgerNotFound, d)
  ELSE LET ins == InsertTransactions(
                    d, TxRow(tx_id, now, ledger_id, payer_id, price, description, payment_time))
       IN  IF ins.err # OK THEN Raise(ins.err, d)
           ELSE Return([transaction_id |-> tx_id], ins.db)

\* add_transaction without the SELECT that looks the ledger up first
add_transaction_NoLedgerCheck(d, tx_id, now, ledger_id, payer_id, price, description, payment_time) ==
  LET ins == InsertTransactions(
               d, TxRow(tx_id, now, ledger_id, payer_id, price, description, payment_time))
  IN  IF ins.err # OK THEN Raise(ins.err, d)
      ELSE LET link == InsertUserTransactions(
                         ins.db, [user_id |-> payer_id, transaction_id |-> tx_id])
           IN  IF link.err # OK THEN Raise(link.err, d)
               ELSE Return([transaction_id |-> tx_id], link.db)

add_transaction(d, tx_id, now, ledger_id, payer_id, price, description, payment_time) ==
  IF ~LedgerExists(d, ledger_id) THEN Raise(LedgerNotFound, d)
  ELSE LET ins == InsertTransactions(
                    d, TxRow(tx_id, now, ledger_id, payer_id, price, description, payment_time))
       IN  IF ins.err # OK THEN Raise(ins.err, d)
           ELSE LET link == InsertUserTransactions(
                              ins.db, [user_id |-> payer_id, transaction_id |-> tx_id])
                IN  IF link.err # OK THEN Raise(link.err, d)
                    ELSE Return([transaction_id |-> tx_id], link.db)

RECURSIVE SumPrice(_)
\* SUM(price) over a multiset of transaction rows
SumPrice(rel) ==
  IF DOMAIN rel = {} THEN 0
  ELSE LET r == CHOOSE x \in DOMAIN rel : TRUE
       IN  r.price * rel[r] + SumPrice([x \in DOMAIN rel \ {r} |-> rel[x]])

\* compute_expense that looks the ledger up first and raises when it is absent
compute_expense_LedgerCheck(d, ledger_id) ==
  IF ~LedgerExists(d, ledger_id) THEN Raise(LedgerNotFound, d)
  ELSE LET other == {r \in Rows(d.transactions) : r.ledger_id # ledger_id}
       IN  Return([total |-> SumPrice(Keep(d.transactions, other))], d)

\* compute_expense without the WHERE ledger_id = ?
compute_expense_AllLedgers(d, ledger_id) ==
  Return([total |-> SumPrice(d.transactions)], d)

\* SELECT COALESCE(SUM(price), 0) FROM transactions WHERE ledger_id = ?
compute_expense(d, ledger_id) ==
  LET other == {r \in Rows(d.transactions) : r.ledger_id # ledger_id}
  IN  Return([total |-> SumPrice(Keep(d.transactions, other))], d)

link_user_to_ledger(d, ledger_id, user_id) ==
  LET ins == InsertUserLedgers(d, [user_id |-> user_id, ledger_id |-> ledger_id])
  IN  IF ins.err # OK THEN Raise(ins.err, d) ELSE Return(NoVal, ins.db)

link_user_to_transaction(d, transaction_id, user_id) ==
  LET ins == InsertUserTransactions(
               d, [user_id |-> user_id, transaction_id |-> transaction_id])
  IN  IF ins.err # OK THEN Raise(ins.err, d) ELSE Return(NoVal, ins.db)

RECURSIVE sorted(_)
\* sorted() of a set of identifiers: ascending
sorted(S) ==
  IF S = {} THEN <<>>
  ELSE LET m == CHOOSE x \in S : \A y \in S : x <= y
       IN  <<m>> \o sorted(S \ {m})

\* SELECT ledger_name, create_time, creator_id FROM ledgers WHERE ledger_id = ? LIMIT 1
SelectLedger(d, ledger_id) ==
  LET hits == {r \in Rows(d.ledgers) : r.ledger_id = ledger_id}
  IN  IF hits = {} THEN <<>> ELSE <<CHOOSE r \in hits : TRUE>>

\* SelectLedgerUsers that also counts the payers of the ledger's transactions
SelectLedgerUsers_WithPayers(d, ledger_id) ==
  {r.user_id : r \in {x \in Rows(d.user_ledgers) : x.ledger_id = ledger_id}}
    \cup {r.payer_id : r \in {x \in Rows(d.transactions) : x.ledger_id = ledger_id}}

\* SELECT user_id FROM user_ledgers WHERE ledger_id = ?, collected into a set
SelectLedgerUsers(d, ledger_id) ==
  {r.user_id : r \in {x \in Rows(d.user_ledgers) : x.ledger_id = ledger_id}}

\* "MM-YY" from a create_time that begins "YYYY-MM", else ""
CreatedDate(create_time) ==
  LET s == strip(create_time)
      yymm == IF Len(s) >= 7 THEN Slice(s, 0, 7) ELSE <<>>
  IN  IF Len(yymm) = 7 /\ yymm[5] = "-"
      THEN LET yyyy == Slice(yymm, 0, 4)
               mm == Slice(yymm, 5, 7)
           IN  mm \o <<"-">> \o Slice(yyyy, 2, 4)
      ELSE <<>>

\* LedgerSummary without users.add(creator_id)
LedgerSummary_NoCreator(row, linked) ==
  [ledger_name |-> row.ledger_name,
   involved_user |-> sorted(linked),
   created_date |-> CreatedDate(row.create_time)]

\* the summary get_ledger_info builds from the ledger row and the linked users read
LedgerSummary(row, linked) ==
  [ledger_name |-> row.ledger_name,
   involved_user |-> sorted(linked \cup {row.creator_id}),
   created_date |-> CreatedDate(row.create_time)]

get_ledger_info(d, ledger_id) ==
  LET row == SelectLedger(d, ledger_id)
  IN  IF row = <<>> THEN Raise(LedgerNotFound, d)
      ELSE Return(LedgerSummary(row[1], SelectLedgerUsers(d, ledger_id)), d)

\* SELECT ledger_id FROM ledgers WHERE creator_id = ?
SelectCreatorLedgers(d, user_id) ==
  {r.ledger_id : r \in {x \in Rows(d.ledgers) : x.creator_id = user_id}}

\* SelectJoinedLedgers that finds no user_ledgers row
SelectJoinedLedgers_None(d, user_id) == {}

\* SELECT ledger_id FROM user_ledgers WHERE user_id = ?
SelectJoinedLedgers(d, user_id) ==
  {r.ledger_id : r \in {x \in Rows(d.user_ledgers) : x.user_id = user_id}}

RECURSIVE LedgersInfo(_, _)
\* the loop of get_user_info over sorted(all_ledgers): a ledger whose summary
\* raises OperationalError is skipped, any other error propagates
LedgersInfo(d, lids) ==
  IF lids = <<>> THEN Return(<<>>, d)
  ELSE LET one == get_ledger_info(d, Head(lids))
           rest == LedgersInfo(d, Tail(lids))
       IN  IF one.err \in OperationalError THEN rest
           ELSE IF one.err # OK THEN Raise(one.err, d)
           ELSE IF rest.err # OK THEN rest
           ELSE Return(<<one.val>> \o rest.val, d)

get_user_info(d, user_id) ==
  LET row == SelectUserName(d, user_id)
  IN  IF row = <<>> THEN Raise(UserNotFound, d)
      ELSE LET all_ledgers == SelectCreatorLedgers(d, user_id)
                                \cup SelectJoinedLedgers(d, user_id)
               infos == LedgersInfo(d, sorted(all_ledgers))
           IN  IF infos.err # OK THEN infos
               ELSE Return([user_name |-> row[1], ledgers |-> infos.val], d)

(***************************************************************************)
(* Callers one at a time: a call is a single step that leaves its record   *)
(* in last (what was called, with what, on which database, and what it     *)
(* returned or raised), and the caller takes the result before the next    *)
(* call is made.  The                                                      *)
(* identifier uuid7() hands a call is any identifier of the relation's     *)
(* pool; gmtime() is any instant of the clock the call is given.           *)
(***************************************************************************)
NoCall == [op |-> "none", args |-> NoVal, err |-> OK, val |-> NoVal, pre |-> EmptyDB]

NoLoc == [op |-> "none"]

\* pre is the database the call started from
Called(op, args, r) ==
  [op |-> op, args |-> args, err |-> r.err, val |-> r.val, pre |-> db]

Idle ==
  /\ pc = [p \in Procs |-> "idle"]
  /\ writer = 0

Call(op, args, r) ==
  /\ Idle
  /\ last = NoCall
  /\ db' = r.db
  /\ last' = Called(op, args, r)
  /\ UNCHANGED <<pc, loc, writer, wdb>>

Result ==
  /\ last # NoCall
  /\ last' = NoCall
  /\ UNCHANGED <<db, pc, loc, writer, wdb>>

CallRegisterUser(names, hashes) ==
  \E id \in UserIds, n \in names, h \in hashes :
    Call("register_user", [user_name |-> n, hashed_password |-> h],
         register_user(db, id, n, h))

CallLogin(names, hashes) ==
  \E n \in names, h \in hashes :
    Call("login", [user_name |-> n, hashed_password |-> h], login(db, n, h))

CallAddLedger(ids, clock, names) ==
  \E id \in ids, now \in clock, u \in UserIds, n \in names :
    Call("add_ledger", [user_id |-> u, ledger_name |-> n, now |-> now],
         add_ledger(db, id, now, u, n))

CallAddTransaction(clock, prices, descriptions, payment_times) ==
  \E id \in TxIds, now \in clock, l \in LedgerIds, u \in UserIds, a \in prices,
     ds \in descriptions, pt \in payment_times :
    Call("add_transaction",
         [ledger_id |-> l, payer_id |-> u, price |-> a, description |-> ds,
          payment_time |-> pt, now |-> now],
         add_transaction(db, id, now, l, u, a, ds, pt))

Deleted(r) == [err |-> r.err, val |-> NoVal, db |-> r.db]

ComputeExpense ==
  \E l \in LedgerIds :
    Call("compute_expense", [ledger_id |-> l], compute_expense(db, l))

LinkUserToLedger ==
  \E l \in LedgerIds, u \in UserIds :
    Call("link_user_to_ledger", [ledger_id |-> l, user_id |-> u],
         link_user_to_ledger(db, l, u))

LinkUserToTransaction ==
  \E t \in TxIds, u \in UserIds :
    Call("link_user_to_transaction", [transaction_id |-> t, user_id |-> u],
         link_user_to_transaction(db, t, u))

CallGetLedgerInfo(ids) ==
  \E l \in ids :
    Call("get_ledger_info", [ledger_id |-> l], get_ledger_info(db, l))

GetLedgerInfo == CallGetLedgerInfo(LedgerIds)

GetUserInfo ==
  \E u \in UserIds :
    Call("get_user_info", [user_id |-> u], get_user_info(db, u))

DeleteUser ==
  \E u \in UserIds :
    Call("delete_user", [user_id |-> u], Deleted(DeleteUsers(db, u)))

CallDeleteLedger(ids) ==
  \E l \in ids :
    Call("delete_ledger", [ledger_id |-> l], Deleted(DeleteLedgers(db, l)))

DeleteLedger == CallDeleteLedger(LedgerIds)

DeleteTransaction ==
  \E t \in TxIds :
    Call("delete_transaction", [transaction_id |-> t],
         Deleted(DeleteTransactions(db, t)))

Init ==
  /\ db = EmptyDB
  /\ last = NoCall
  /\ pc = [p \in Procs |-> "idle"]
  /\ loc = [p \in Procs |-> NoLoc]
  /\ writer = 0
  /\ wdb = EmptyDB

(***************************************************************************)
(* Spec: every function and every deletion, over all five relations, with  *)
(* one user name, no ledger name given, one instant and one price.         *)
(***************************************************************************)
RegisterUser == CallRegisterUser({<<"A">>}, {"h1"})

Login == CallLogin({<<"A">>}, {"h1", "h2"})

AddLedger == CallAddLedger(LedgerIds, {Instants[1]}, {None})

AddTransaction == CallAddTransaction({Instants[1]}, {2}, {None}, {None})

Next ==
  \/ RegisterUser
  \/ Login
  \/ AddLedger
  \/ AddTransaction
  \/ ComputeExpense
  \/ LinkUserToLedger
  \/ LinkUserToTransaction
  \/ GetLedgerInfo
  \/ GetUserInfo
  \/ DeleteUser
  \/ DeleteLedger
  \/ DeleteTransaction
  \/ Result

Spec == Init /\ [][Next]_vars

(***************************************************************************)
(* SpecLedgers: users of two names, their ledgers, named or not, created   *)
(* at either instant, and ledger links, with the summaries read back; no   *)
(* transactions.                                                           *)
(***************************************************************************)
UserNames == {<<"A">>, <<"B">>}

RegisterNamedUser == CallRegisterUser(UserNames, {"h1"})

AddDatedLedger == CallAddLedger(LedgerIds, Clock, {None, Some(<<" ", "x">>)})

NextLedgers ==
  \/ RegisterNamedUser
  \/ AddDatedLedger
  \/ LinkUserToLedger
  \/ GetLedgerInfo
  \/ GetUserInfo
  \/ DeleteUser
  \/ DeleteLedger
  \/ Result

SpecLedgers == Init /\ [][NextLedgers]_vars

(***************************************************************************)
(* SpecNames: a ledger created at either instant with every kind of name   *)
(* argument by users of two names, and read back.                          *)
(***************************************************************************)
LedgerNames == {None, Some(<<>>), Some(<<" ">>), Some(<<"x">>), Some(<<" ", "x">>)}

AddNamedLedger == CallAddLedger(NamesLedgerIds, Clock, LedgerNames)

GetNamedLedgerInfo == CallGetLedgerInfo(NamesLedgerIds)

DeleteNamedLedger == CallDeleteLedger(NamesLedgerIds)

NextNames ==
  \/ RegisterNamedUser
  \/ AddNamedLedger
  \/ GetNamedLedgerInfo
  \/ DeleteNamedLedger
  \/ Result

SpecNames == Init /\ [][NextNames]_vars

(***************************************************************************)
(* SpecExpense: transactions of either sign, described, dated by the call  *)
(* or by the clock, in two ledgers, and their totals.                      *)
(***************************************************************************)
Prices == {-1, 2}

AddPricedTransaction ==
  CallAddTransaction({Instants[1]}, Prices, {Some(<<"l">>)},
                     {None, Some(strftime_date(Instants[2]))})

NextExpense ==
  \/ RegisterUser
  \/ AddLedger
  \/ AddPricedTransaction
  \/ ComputeExpense
  \/ DeleteTransaction
  \/ DeleteLedger
  \/ Result

SpecExpense == Init /\ [][NextExpense]_vars

(***************************************************************************)
(* SpecConc: the callers of Procs run the functions statement by           *)
(* statement.  A SELECT outside a transaction reads the committed          *)
(* database.  Before its first INSERT or DELETE the connection opens a     *)
(* transaction (the sqlite3 module's default), which takes the write lock; *)
(* the statements of the with-block then work on wdb, and the block        *)
(* commits wdb when it ends and rolls back when a statement raises.  A     *)
(* caller that finds the lock taken waits, and raises "database is         *)
(* locked" when busy_timeout runs out.  A call that raises before it       *)
(* changed anything leaves no trace and is no step.                        *)
(***************************************************************************)
\* the committed database after a statement of an open transaction changed the
\* working copy: nothing is published before the with-block ends
InTransaction_Autocommit(committed, working) == working

InTransaction(committed, working) == committed

Working(p) == IF writer = p THEN wdb ELSE db

Goto(p, to, l) ==
  /\ pc' = [pc EXCEPT ![p] = to]
  /\ loc' = [loc EXCEPT ![p] = l]

\* an INSERT or DELETE of caller p with outcome res; then on to pc `to`
Statement(p, res, to, l) ==
  /\ writer \in {0, p}
  /\ IF res.err = OK
     THEN /\ writer' = p
          /\ wdb' = res.db
          /\ db' = InTransaction(db, res.db)
          /\ Goto(p, to, l)
     ELSE /\ writer' = 0
          /\ wdb' = EmptyDB
          /\ db' = db
          /\ Goto(p, "idle", NoLoc)
  /\ UNCHANGED last

\* busy_timeout ran out while another caller held the write lock
Busy(p) ==
  /\ pc[p] \in {"add_ledger_insert", "add_transaction_insert"}
  /\ writer \notin {0, p}
  /\ Goto(p, "idle", NoLoc)
  /\ UNCHANGED <<db, last, writer, wdb>>

\* the with-block ends: conn.commit()
Commit(p) ==
  /\ pc[p] = "commit"
  /\ writer = p
  /\ db' = wdb
  /\ writer' = 0
  /\ wdb' = EmptyDB
  /\ Goto(p, "idle", NoLoc)
  /\ UNCHANGED last

ConcRegisterUser(p) ==
  /\ pc[p] = "idle"
  /\ \E id \in UserIds :
       Statement(p, InsertUsers(Working(p), [user_id |-> id, user_name |-> <<"A">>,
                                             hashed_password |-> "h1"]),
                 "commit", NoLoc)

ConcAddLedgerSelect(p) ==
  /\ pc[p] = "idle"
  /\ \E id \in ConcLedgerIds, u \in UserIds :
       LET row == SelectUserName(db, u)
       IN  /\ row # <<>>
           /\ Goto(p, "add_ledger_insert",
                   [op |-> "add_ledger",
                    row |-> LedgerRow(id, Instants[1], u, row[1], None)])
  /\ UNCHANGED <<db, last, writer, wdb>>

ConcAddLedgerInsert(p) ==
  /\ pc[p] = "add_ledger_insert"
  /\ Statement(p, InsertLedgers(Working(p), loc[p].row), "commit", NoLoc)

ConcAddTransactionSelect(p) ==
  /\ pc[p] = "idle"
  /\ \E id \in ConcTxIds, l \in ConcLedgerIds, u \in UserIds :
       /\ LedgerExists(db, l)
       /\ Goto(p, "add_transaction_insert",
               [op |-> "add_transaction",
                row |-> TxRow(id, Instants[1], l, u, 2, None, None)])
  /\ UNCHANGED <<db, last, writer, wdb>>

ConcAddTransactionInsert(p) ==
  /\ pc[p] = "add_transaction_insert"
  /\ Statement(p, InsertTransactions(Working(p), loc[p].row),
               "add_transaction_link", loc[p])

ConcAddTransactionLink(p) ==
  /\ pc[p] = "add_transaction_link"
  /\ Statement(p, InsertUserTransactions(
                    Working(p), [user_id |-> loc[p].row.payer_id,
                                 transaction_id |-> loc[p].row.transaction_id]),
               "commit", NoLoc)

ConcLinkUserToLedger(p) ==
  /\ pc[p] = "idle"
  /\ \E l \in ConcLedgerIds, u \in UserIds :
       Statement(p, InsertUserLedgers(Working(p), [user_id |-> u, ledger_id |-> l]),
                 "commit", NoLoc)

ConcLinkUserToTransaction(p) ==
  /\ pc[p] = "idle"
  /\ \E t \in ConcTxIds, u \in UserIds :
       Statement(p, InsertUserTransactions(
                      Working(p), [user_id |-> u, transaction_id |-> t]),
                 "commit", NoLoc)

ConcDeleteUser(p) ==
  /\ pc[p] = "idle"
  /\ \E u \in UserIds : Statement(p, DeleteUsers(Working(p), u), "commit", NoLoc)

ConcDeleteLedger(p) ==
  /\ pc[p] = "idle"
  /\ \E l \in ConcLedgerIds : Statement(p, DeleteLedgers(Working(p), l), "commit", NoLoc)

ConcDeleteTransaction(p) ==
  /\ pc[p] = "idle"
  /\ \E t \in ConcTxIds : Statement(p, DeleteTransactions(Working(p), t), "commit", NoLoc)

ConcGetLedgerInfoSelect(p) ==
  /\ pc[p] = "idle"
  /\ \E l \in ConcLedgerIds :
       LET row == SelectLedger(db, l)
       IN  /\ row # <<>>
           /\ Goto(p, "get_ledger_info_users",
                   [op |-> "get_ledger_info", ledger_id |-> l, row |-> row[1]])
  /\ UNCHANGED <<db, last, writer, wdb>>

ConcGetLedgerInfoUsers(p) ==
  /\ pc[p] = "get_ledger_info_users"
  /\ Goto(p, "returned",
          [op |-> "get_ledger_info", ledger_id |-> loc[p].ledger_id,
           val |-> LedgerSummary(loc[p].row, SelectLedgerUsers(db, loc[p].ledger_id))])
  /\ UNCHANGED <<db, last, writer, wdb>>

ConcResult(p) ==
  /\ pc[p] = "returned"
  /\ Goto(p, "idle", NoLoc)
  /\ UNCHANGED <<db, last, writer, wdb>>

NextConc ==
  \E p \in Procs :
    \/ ConcRegisterUser(p)
    \/ ConcAddLedgerSelect(p)
    \/ ConcAddLedgerInsert(p)
    \/ ConcAddTransactionSelect(p)
    \/ ConcAddTransactionInsert(p)
    \/ ConcAddTransactionLink(p)
    \/ ConcLinkUserToLedger(p)
    \/ ConcLinkUserToTransaction(p)
    \/ ConcDeleteUser(p)
    \/ ConcDeleteLedger(p)
    \/ ConcDeleteTransaction(p)
    \/ ConcGetLedgerInfoSelect(p)
    \/ ConcGetLedgerInfoUsers(p)
    \/ ConcResult(p)
    \/ Busy(p)
    \/ Commit(p)

SpecConc == Init /\ [][NextConc]_vars

(***************************************************************************)
(* Properties.                                                             *)
(***************************************************************************)
PayerLinked(d) ==
  \A t \in Rows(d.transactions) :
    \E r \in Rows(d.user_transactions) :
      r.user_id = t.payer_id /\ r.transaction_id = t.transaction_id

\* C1: whatever the callers interleave, every committed database that holds a
\* transaction row T with payer P holds the user_transactions row (P, T): the two
\* inserts of add_transaction are published together or not at all.
C1_PayerLinkAtomic == PayerLinked(db)

\* C1 witness: a caller is between the two inserts of add_transaction (its
\* transaction row is written, its payer link is not) while the committed database
\* holds another transaction and a reader is between its two SELECTs.
C1_Witness ==
  \E p, q \in Procs :
    /\ pc[p] = "add_transaction_link"
    /\ writer = p
    /\ ~PayerLinked(wdb)
    /\ Rows(db.transactions) # {}
    /\ pc[q] = "get_ledger_info_users"

\* C3: in every committed database every creator_id is a user, every transaction's
\* ledger_id is a ledger and its payer_id a user, and every user_ledgers and
\* user_transactions row names a user and a ledger or transaction that exist.
C3_ReferentialIntegrity ==
  /\ \A r \in Rows(db.ledgers) : UserExists(db, r.creator_id)
  /\ \A r \in Rows(db.transactions) :
       LedgerExists(db, r.ledger_id) /\ UserExists(db, r.payer_id)
  /\ \A r \in Rows(db.user_ledgers) :
       UserExists(db, r.user_id) /\ LedgerExists(db, r.ledger_id)
  /\ \A r \in Rows(db.user_transactions) :
       UserExists(db, r.user_id) /\ TxExists(db, r.transaction_id)

\* C3 witness: a caller of add_transaction has found its ledger, another caller has
\* deleted that ledger since, and the INSERT is still to come.
C3_Witness ==
  \E p \in Procs :
    /\ pc[p] = "add_transaction_insert"
    /\ ~LedgerExists(db, loc[p].row.ledger_id)
    /\ UserExists(db, loc[p].row.payer_id)
    /\ writer = 0

InSeq(x, s) == \E i \in 1..Len(s) : s[i] = x

Creator(d, l) == (CHOOSE r \in Rows(d.ledgers) : r.ledger_id = l).creator_id

Linked(d, u, l) == \E r \in Rows(d.user_ledgers) : r.user_id = u /\ r.ledger_id = l

AddedTransaction == last.op = "add_transaction" /\ last.err = OK

\* C2, as stated: after add_transaction(ledger, payer, amount) succeeds,
\* get_ledger_info(ledger).involved_user contains payer, also for a payer who is
\* neither the ledger's creator nor linked to the ledger by link_user_to_ledger.
C2_PayerInvolved ==
  AddedTransaction =>
    InSeq(last.args.payer_id, get_ledger_info(db, last.args.ledger_id).val.involved_user)

\* C2, amended: add_transaction leaves get_ledger_info(ledger) as it was before the
\* call, so after it succeeds involved_user contains payer exactly when payer is the
\* ledger's creator or is linked to the ledger through user_ledgers.
C2_PayerInvolvedIffCreatorOrLinked ==
  AddedTransaction =>
    LET l == last.args.ledger_id
        p == last.args.payer_id
        info == get_ledger_info(db, l)
    IN  /\ info.err = OK
        /\ info.val = get_ledger_info(last.pre, l).val
        /\ InSeq(p, info.val.involved_user)
             <=> (p = Creator(last.pre, l) \/ Linked(last.pre, p, l))

\* C2 witness: a transaction was recorded with the ledger's creator as payer, no
\* user_ledgers row links the creator, and the creator is in involved_user.
C2_Witness ==
  /\ AddedTransaction
  /\ last.args.payer_id = Creator(db, last.args.ledger_id)
  /\ ~Linked(db, last.args.payer_id, last.args.ledger_id)
  /\ InSeq(last.args.payer_id, get_ledger_info(db, last.args.ledger_id).val.involved_user)

\* C7: add_transaction raises "ledger_id not found" when the ledger does not exist,
\* and IntegrityError when the ledger exists and the payer does not; either way the
\* five relations are what they were before the call.
C7_AddTransactionFails ==
  last.op = "add_transaction" =>
    /\ ~LedgerExists(last.pre, last.args.ledger_id)
         => last.err = LedgerNotFound /\ db = last.pre
    /\ (LedgerExists(last.pre, last.args.ledger_id)
          /\ ~UserExists(last.pre, last.args.payer_id))
         => last.err = IntegrityError /\ db = last.pre

\* C7 witness: add_transaction was called on an existing ledger with a payer that
\* does not exist, while other transactions are stored.
C7_Witness ==
  /\ last.op = "add_transaction"
  /\ LedgerExists(last.pre, last.args.ledger_id)
  /\ ~UserExists(last.pre, last.args.payer_id)
  /\ last.err = IntegrityError
  /\ Rows(db.transactions) # {}

OfLedger(rel, l) == {r \in Rows(rel) : r.ledger_id = l}

OfLedgerTx(d, l) ==
  {r \in Rows(d.user_transactions) :
     \E x \in OfLedger(d.transactions, l) : x.transaction_id = r.transaction_id}

\* rel1 is rel0 without the rows gone, every other row with its copies
Without(rel1, rel0, gone) ==
  /\ Rows(rel1) = Rows(rel0) \ gone
  /\ \A r \in Rows(rel1) : rel1[r] = rel0[r]

\* C10: deleting a ledger succeeds and removes that ledger, its user_ledgers rows, its
\* transactions and the user_transactions rows of those transactions; users, other
\* ledgers and the rows of other ledgers stay as they were.
C10_DeleteLedgerCascades ==
  last.op = "delete_ledger" =>
    LET l == last.args.ledger_id
        d == last.pre
    IN  /\ last.err = OK
        /\ db.users = d.users
        /\ Without(db.ledgers, d.ledgers, OfLedger(d.ledgers, l))
        /\ Without(db.user_ledgers, d.user_ledgers, OfLedger(d.user_ledgers, l))
        /\ Without(db.transactions, d.transactions, OfLedger(d.transactions, l))
        /\ Without(db.user_transactions, d.user_transactions, OfLedgerTx(d, l))

\* C10 witness: the deleted ledger had a linked user and a transaction with its payer
\* link, and another ledger with a transaction of its own is still there.
C10_Witness ==
  /\ last.op = "delete_ledger"
  /\ OfLedger(last.pre.user_ledgers, last.args.ledger_id) # {}
  /\ OfLedgerTx(last.pre, last.args.ledger_id) # {}
  /\ \E l \in LedgerIds :
       /\ l # last.args.ledger_id
       /\ OfLedgerTx(db, l) # {}
       /\ OfLedger(db.user_ledgers, l) # {}

RECURSIVE Total(_, _, _)
\* the prices of the transactions of ledger l in d, added up one identifier at a time
Total(d, l, ids) ==
  IF ids = {} THEN 0
  ELSE LET t == CHOOSE x \in ids : TRUE
           mine == {r \in Rows(d.transactions) : r.transaction_id = t /\ r.ledger_id = l}
       IN  (IF mine = {} THEN 0 ELSE (CHOOSE r \in mine : TRUE).price)
             + Total(d, l, ids \ {t})

\* C4: compute_expense(ledger) is the sum of the prices of the transactions whose
\* ledger_id is that ledger, and zero when there is none.
C4_ExpenseIsSumOfLedger ==
  \A l \in LedgerIds :
    LET r == compute_expense(db, l)
    IN  /\ r.err = OK
        /\ r.val.total = Total(db, l, TxIds)
        /\ OfLedger(db.transactions, l) = {} => r.val.total = 0

\* C4 witness: compute_expense returned the sum of two transactions of its ledger,
\* of different prices.
C4_Witness ==
  /\ last.op = "compute_expense"
  /\ Cardinality(OfLedger(db.transactions, last.args.ledger_id)) = 2
  /\ \E r \in Rows(db.transactions) : r.price < 0
  /\ last.val.total = 1

Ascending(s) == \A i, j \in 1..Len(s) : i < j => s[i] < s[j]

Elements(s) == {s[i] : i \in 1..Len(s)}

\* C5: for every existing ledger, involved_user is the ascending, duplicate-free list
\* of the users linked to it through user_ledgers together with its creator.
C5_InvolvedUsers ==
  \A l \in LedgerIds :
    LedgerExists(db, l) =>
      LET r == get_ledger_info(db, l)
      IN  /\ r.err = OK
          /\ Ascending(r.val.involved_user)
          /\ Elements(r.val.involved_user)
               = {u \in UserIds : Linked(db, u, l)} \cup {Creator(db, l)}

\* C5 witness: get_ledger_info was called on a ledger whose creator has no
\* user_ledgers row while another user has one.
C5_Witness ==
  /\ last.op = "get_ledger_info"
  /\ last.err = OK
  /\ ~Linked(db, Creator(db, last.args.ledger_id), last.args.ledger_id)
  /\ Len(last.val.involved_user) = 2

\* C6: link_user_to_ledger raises IntegrityError when the pair is already linked, when
\* the user does not exist and when the ledger does not exist, and then leaves
\* user_ledgers as it was; no pair is ever stored twice.
C6_LinkUserToLedgerFails ==
  /\ last.op = "link_user_to_ledger" =>
       LET l == last.args.ledger_id
           u == last.args.user_id
       IN  (Linked(last.pre, u, l) \/ ~UserExists(last.pre, u) \/ ~LedgerExists(last.pre, l))
             => last.err = IntegrityError /\ db.user_ledgers = last.pre.user_ledgers
  /\ \A r \in Rows(db.user_ledgers) : db.user_ledgers[r] = 1

\* C6 witness: link_user_to_ledger was called for a pair that is already linked.
C6_Witness ==
  /\ last.op = "link_user_to_ledger"
  /\ Linked(last.pre, last.args.user_id, last.args.ledger_id)
  /\ last.err = IntegrityError

Blank(name) == ~name.some \/ \A i \in 1..Len(name.val) : IsSpace(name.val[i])

UserName(d, u) == (CHOOSE r \in UserRows(d) : r.user_id = u).user_name

StoredLedger(d, l) == CHOOSE r \in Rows(d.ledgers) : r.ledger_id = l

\* C8: a successful add_ledger stores "<creator's name> 的账本 <UTC date of the call>"
\* when the name is None, empty or only whitespace, and the name as given otherwise;
\* get_ledger_info of the new ledger reports the stored name.
C8_LedgerName ==
  (last.op = "add_ledger" /\ last.err = OK) =>
    LET l == last.val.ledger_id
        expected == IF Blank(last.args.ledger_name)
                    THEN UserName(last.pre, last.args.user_id)
                           \o <<" ", "U+7684", "U+8D26", "U+672C", " ">>
                           \o strftime_date(last.args.now)
                    ELSE last.args.ledger_name.val
    IN  /\ LedgerExists(db, l)
        /\ StoredLedger(db, l).ledger_name = expected
        /\ get_ledger_info(db, l).val.ledger_name = expected

\* C8 witness: add_ledger was given a whitespace-only name by a creator who is not
\* the first user, on the second date.
C8_Witness ==
  /\ last.op = "add_ledger"
  /\ last.err = OK
  /\ last.args.ledger_name = Some(<<" ">>)
  /\ last.args.now = Instants[2]
  /\ UserName(db, last.args.user_id) = <<"B">>

UserLedgers(d, u) ==
  {l \in LedgerIds : LedgerExists(d, l) /\ (Creator(d, l) = u \/ Linked(d, u, l))}

\* C9: get_user_info raises "user_id not found" for a user that does not exist;
\* otherwise it returns the user's name and the summary of every ledger the user
\* created or is linked to, each once, by ascending ledger identifier.
C9_UserInfo ==
  last.op = "get_user_info" =>
    LET u == last.args.user_id
    IN  IF ~UserExists(db, u) THEN last.err = UserNotFound
        ELSE /\ last.err = OK
             /\ last.val.user_name = UserName(db, u)
             /\ Len(last.val.ledgers) = Cardinality(UserLedgers(db, u))
             /\ \E ids \in [1..Len(last.val.ledgers) -> UserLedgers(db, u)] :
                  /\ \A i, j \in DOMAIN ids : i < j => ids[i] < ids[j]
                  /\ \A i \in DOMAIN ids :
                       last.val.ledgers[i] = get_ledger_info(db, ids[i]).val

\* C9 witness: get_user_info returned two different summaries, of a ledger the user
\* created and is linked to and of a ledger the user is only linked to.
C9_Witness ==
  /\ last.op = "get_user_info"
  /\ last.err = OK
  /\ Len(last.val.ledgers) = 2
  /\ last.val.ledgers[1] # last.val.ledgers[2]
  /\ \E l \in LedgerIds :
       /\ Creator(db, l) = last.args.user_id
       /\ Linked(db, last.args.user_id, l)
  /\ \E l \in LedgerIds :
       /\ LedgerExists(db, l)
       /\ Creator(db, l) # last.args.user_id
       /\ Linked(db, last.args.user_id, l)

OfUser(rel, u) == {r \in Rows(rel) : r.user_id = u}

\* C11: deleting a user who is the creator of a ledger or the payer of a transaction
\* raises IntegrityError and leaves the five relations as they were; deleting any
\* other user succeeds and removes that user's users row and user_ledgers and
\* user_transactions rows, and nothing else.
C11_DeleteUserRestricted ==
  last.op = "delete_user" =>
    LET u == last.args.user_id
        d == last.pre
    IN  IF \/ \E r \in Rows(d.ledgers) : r.creator_id = u
           \/ \E r \in Rows(d.transactions) : r.payer_id = u
        THEN last.err = IntegrityError /\ db = d
        ELSE /\ last.err = OK
             /\ ~UserExists(db, u)
             /\ \E gap \in 0..Len(d.users) :
                  /\ gap = 0 <=> ~UserExists(d, u)
                  /\ gap > 0 => d.users[gap].user_id = u
                  /\ db.users = [i \in 1..(Len(d.users) - (IF gap = 0 THEN 0 ELSE 1)) |->
                                   IF gap = 0 \/ i < gap THEN d.users[i] ELSE d.users[i + 1]]
             /\ db.ledgers = d.ledgers
             /\ db.transactions = d.transactions
             /\ Without(db.user_ledgers, d.user_ledgers, OfUser(d.user_ledgers, u))
             /\ Without(db.user_transactions, d.user_transactions,
                        OfUser(d.user_transactions, u))

\* C11 witness: a user linked to another user's ledger and to a transaction another
\* user paid was deleted; the ledger, the transaction and the payer's link are left.
C11_Witness ==
  /\ last.op = "delete_user"
  /\ last.err = OK
  /\ OfUser(last.pre.user_ledgers, last.args.user_id) # {}
  /\ OfUser(last.pre.user_transactions, last.args.user_id) # {}
  /\ Rows(db.user_transactions) # {}
  /\ Len(db.users) = 1

\* C11 witness of the refusal: the user is the payer of a transaction and the creator
\* of no ledger.
C11_RefusedPayer ==
  /\ last.op = "delete_user"
  /\ last.err = IntegrityError
  /\ \A r \in Rows(db.ledgers) : r.creator_id # last.args.user_id

(***************************************************************************)
(* uuid7().  A Python int of up to 128 bits is the sequence of its 32      *)
(* hexadecimal digits, most significant first, each a number 0..15; every  *)
(* shift of uuid7 is by a multiple of four bits.  The reading of the clock *)
(* and the bytes of os.urandom are the inputs.                             *)
(***************************************************************************)
Zeros(n) == [i \in 1..n |-> 0]

\* the int written with the hexadecimal digits ds
Hex(ds) == Zeros(32 - Len(ds)) \o ds

RECURSIVE BitAnd(_, _)
BitAnd(a, b) ==
  IF a = 0 \/ b = 0 THEN 0
  ELSE (a % 2) * (b % 2) + 2 * BitAnd(a \div 2, b \div 2)

RECURSIVE BitOr(_, _)
BitOr(a, b) ==
  IF a = 0 THEN b
  ELSE IF b = 0 THEN a
  ELSE (IF a % 2 = 1 \/ b % 2 = 1 THEN 1 ELSE 0) + 2 * BitOr(a \div 2, b \div 2)

\* x & y
And(x, y) == [i \in 1..32 |-> BitAnd(x[i], y[i])]

\* x | y
Or(x, y) == [i \in 1..32 |-> BitOr(x[i], y[i])]

\* x >> bits
Shr(x, bits) == Zeros(bits \div 4) \o SubSeq(x, 1, 32 - bits \div 4)

\* x << bits, of a result that fits 128 bits
Shl(x, bits) == SubSeq(x, bits \div 4 + 1, 32) \o Zeros(bits \div 4)

\* x < y
IntLess(x, y) ==
  \E i \in 1..32 : x[i] < y[i] /\ \A j \in 1..(i - 1) : x[j] = y[j]

\* 0xFFFFFFFF, 0xFFFF, 0xFFF and 0x7000
xFFFFFFFF == Hex(<<15, 15, 15, 15, 15, 15, 15, 15>>)

xFFFF == Hex(<<15, 15, 15, 15>>)

xFFF == Hex(<<15, 15, 15>>)

x7000 == Hex(<<7, 0, 0, 0>>)

time_high(ts_ms) == And(Shr(ts_ms, 28), xFFFFFFFF)

time_mid(ts_ms) == And(Shr(ts_ms, 12), xFFFF)

time_low(ts_ms) == And(ts_ms, xFFF)

\* msb with the three fields in the order of a version 1 identifier, low bits first
msb_TimeLowFirst(ts_ms) ==
  Or(Or(Shl(time_low(ts_ms), 52), Shl(time_mid(ts_ms), 36)),
     Or(Shr(time_high(ts_ms), 0), Shl(x7000, 20)))

msb(ts_ms) ==
  Or(Or(Shl(time_high(ts_ms), 32), Shl(time_mid(ts_ms), 16)),
     Or(x7000, time_low(ts_ms)))

lsb(rand_a, rand_b) == Or(Shl(rand_a, 48), rand_b)

\* the int handed to uuid.UUID
uuid7_int(ts_ms, rand_a, rand_b) == Or(Shl(msb(ts_ms), 64), lsb(rand_a, rand_b))

HexDigit(n) ==
  <<"0", "1", "2", "3", "4", "5", "6", "7", "8", "9", "a", "b", "c", "d", "e", "f">>[n + 1]

\* str(uuid.UUID(int=n)): '%032x' % n, cut 8-4-4-4-12 and joined by dashes
UUIDStr(n) ==
  LET hex == [i \in 1..32 |-> HexDigit(n[i])]
  IN  SubSeq(hex, 1, 8) \o <<"-">> \o SubSeq(hex, 9, 12) \o <<"-">>
        \o SubSeq(hex, 13, 16) \o <<"-">> \o SubSeq(hex, 17, 20) \o <<"-">>
        \o SubSeq(hex, 21, 32)

uuid7(ts_ms, rand_a, rand_b) == UUIDStr(uuid7_int(ts_ms, rand_a, rand_b))

\* ord(c) of the characters of an identifier
Ord(c) ==
  CASE c = "-" -> 45
    [] c = "0" -> 48 [] c = "1" -> 49 [] c = "2" -> 50 [] c = "3" -> 51
    [] c = "4" -> 52 [] c = "5" -> 53 [] c = "6" -> 54 [] c = "7" -> 55
    [] c = "8" -> 56 [] c = "9" -> 57
    [] c = "a" -> 97 [] c = "b" -> 98 [] c = "c" -> 99 [] c = "d" -> 100
    [] c = "e" -> 101 [] c = "f" -> 102

\* uuid.UUID(s).int: the hexadecimal digits of s without the dashes
UUIDInt(s) ==
  LET hex == SelectSeq(s, LAMBDA c : c # "-")
  IN  [i \in 1..Len(hex) |->
         IF Ord(hex[i]) >= 97 THEN Ord(hex[i]) - 87 ELSE Ord(hex[i]) - 48]

\* s < t of two Python strings
StrLess(s, t) ==
  \/ Len(s) < Len(t) /\ SubSeq(t, 1, Len(s)) = s
  \/ \E i \in 1..Len(s) :
       /\ i <= Len(t)
       /\ Ord(s[i]) < Ord(t[i])
       /\ \A j \in 1..(i - 1) : s[j] = t[j]

(***************************************************************************)
(* SpecUuid: each caller calls uuid7 and holds what it returned.  The      *)
(* clock reads 0x19a_5c3b_2f4_ around 2025-11, with the lowest digit of    *)
(* each of the three fields either way round a carry; os.urandom returns   *)
(* all bits clear or all bits set.                                         *)
(***************************************************************************)
Timestamps ==
  {Hex(<<1, 9, 10, h, 5, 12, 3, m, 2, 15, l>>) : h \in {9, 10}, m \in {0, 15}, l \in {0, 15}}

RandA == {Hex(<<0, 0, 0, 0>>), Hex(<<15, 15, 15, 15>>)}

RandB == {Hex(Zeros(12)), Hex([i \in 1..12 |-> 15])}

Uuid7(p) ==
  \E ts_ms \in Timestamps, rand_a \in RandA, rand_b \in RandB :
    /\ loc' = [loc EXCEPT ![p] = [op |-> "uuid7", ts_ms |-> ts_ms,
                                  rand_a |-> rand_a, rand_b |-> rand_b,
                                  id |-> uuid7(ts_ms, rand_a, rand_b)]]
    /\ UNCHANGED <<db, last, pc, writer, wdb>>

NextUuid == \E p \in Procs : Uuid7(p)

SpecUuid == Init /\ [][NextUuid]_vars

Holds(p) == loc[p].op = "uuid7"

\* C12: of two identifiers made at clock readings t1 < t2, whatever the random bytes
\* of each, the one made at t1 is less than the one made at t2, as 128-bit integers
\* and as canonical dashed-hex strings.
C12_LaterSortsAfter ==
  \A p, q \in Procs :
    (Holds(p) /\ Holds(q) /\ IntLess(loc[p].ts_ms, loc[q].ts_ms)) =>
      /\ IntLess(UUIDInt(loc[p].id), UUIDInt(loc[q].id))
      /\ StrLess(loc[p].id, loc[q].id)

\* C12 witness: two identifiers a millisecond field apart, the earlier with every
\* random bit set and the later with every random bit clear, whose strings first
\* differ where one has a digit and the other a letter.
C12_Witness ==
  \E p, q \in Procs :
    /\ Holds(p) /\ Holds(q)
    /\ IntLess(loc[p].ts_ms, loc[q].ts_ms)
    /\ time_high(loc[p].ts_ms) = time_high(loc[q].ts_ms)
    /\ time_mid(loc[p].ts_ms) = time_mid(loc[q].ts_ms)
    /\ loc[p].rand_a = Hex(<<15, 15, 15, 15>>) /\ loc[p].rand_b = Hex([i \in 1..12 |-> 15])
    /\ loc[q].rand_a = Hex(<<0, 0, 0, 0>>) /\ loc[q].rand_b = Hex(Zeros(12))
    /\ loc[p].id[18] = "0" /\ loc[q].id[18] = "f"
    /\ StrLess(loc[p].id, loc[q].id)

\* C15: in every identifier uuid7 returns, the high 48 bits are the clock reading in
\* milliseconds, the next 4 bits are the version 7, and the remaining 76 bits are the
\* same for the same random bytes whatever the clock reading.
C15_Layout ==
  \A p \in Procs :
    Holds(p) =>
      LET n == UUIDInt(loc[p].id)
      IN  /\ SubSeq(n, 1, 12) = SubSeq(loc[p].ts_ms, 21, 32)
          /\ n[13] = 7
          /\ \A q \in Procs :
               (Holds(q) /\ loc[q].rand_a = loc[p].rand_a /\ loc[q].rand_b = loc[p].rand_b)
                 => SubSeq(UUIDInt(loc[q].id), 14, 32) = SubSeq(n, 14, 32)

(***************************************************************************)
(* SpecLogin: users registered under either name with either credential    *)
(* hash, deleted again, and authenticated.                                 *)
(***************************************************************************)
Hashes == {"h1", "h2"}

RegisterHashedUser == CallRegisterUser(UserNames, Hashes)

LoginNamed == CallLogin(UserNames, Hashes)

NextLogin ==
  \/ RegisterHashedUser
  \/ LoginNamed
  \/ DeleteUser
  \/ Result

SpecLogin == Init /\ [][NextLogin]_vars

\* the positions, in order of registration, of the users of d called name
Named(d, name) == {i \in 1..Len(d.users) : d.users[i].user_name = name}

\* C14: login(name, hash) raises nothing; it returns the identifier of the user
\* registered first among those called name when that user's stored hash is hash, and
\* None when there is no such user or that user's hash differs.  A user registered
\* later under the same name with another hash is never returned for their own hash.
C14_LoginFirstRegistered ==
  last.op = "login" =>
    LET d == last.pre
        name == last.args.user_name
        hash == last.args.hashed_password
    IN  /\ last.err = OK
        /\ Named(d, name) = {} => last.val = None
        /\ \A i \in Named(d, name) :
             (\A j \in Named(d, name) : i <= j) =>
               /\ last.val = IF d.users[i].hashed_password = hash
                             THEN Some(d.users[i].user_id)
                             ELSE None
               /\ \A k \in Named(d, name) :
                    (k > i /\ d.users[k].hashed_password # d.users[i].hashed_password
                       /\ hash = d.users[k].hashed_password)
                      => last.val # Some(d.users[k].user_id)

\* C14 witness: two users share a name, the one registered later holds the smaller
\* identifier and another hash, and login with the later user's hash returned None.
C14_Witness ==
  /\ last.op = "login"
  /\ Len(db.users) = 2
  /\ db.users[1].user_name = db.users[2].user_name
  /\ db.users[1].user_name = last.args.user_name
  /\ db.users[2].user_id < db.users[1].user_id
  /\ db.users[2].hashed_password = last.args.hashed_password
  /\ db.users[1].hashed_password # last.args.hashed_password
  /\ last.val = None

\* every row of rel0 is in rel1, with as many copies
Contains(rel1, rel0) ==
  \A r \in Rows(rel0) : r \in Rows(rel1) /\ rel1[r] >= rel0[r]

\* the relations a function inserts into
Writes(op) ==
  CASE op = "register_user" -> {"users"}
    [] op = "add_ledger" -> {"ledgers"}
    [] op = "add_transaction" -> {"transactions", "user_transactions"}
    [] op = "link_user_to_ledger" -> {"user_ledgers"}
    [] op = "link_user_to_transaction" -> {"user_transactions"}
    [] OTHER -> {}

ModuleFunctions ==
  {"register_user", "login", "add_ledger", "add_transaction", "compute_expense",
   "link_user_to_ledger", "link_user_to_transaction", "get_ledger_info", "get_user_info"}

\* C17: register_user, add_ledger, add_transaction, link_user_to_ledger and
\* link_user_to_transaction keep every row that was there before the call, unchanged,
\* and add rows to their own relations only; login, compute_expense, get_ledger_info
\* and get_user_info leave the five relations as they were.
C17_AppendOnly ==
  last.op \in ModuleFunctions =>
    LET d == last.pre
    IN  /\ Len(d.users) <= Len(db.users)
        /\ SubSeq(db.users, 1, Len(d.users)) = d.users
        /\ \A rel \in {"ledgers", "user_ledgers", "transactions", "user_transactions"} :
             Contains(db[rel], d[rel])
        /\ \A rel \in DOMAIN d : rel \notin Writes(last.op) => db[rel] = d[rel]

\* C17 witness: add_transaction added its two rows to a database that held rows in
\* all five relations.
C17_Witness ==
  /\ last.op = "add_transaction"
  /\ last.err = OK
  /\ \A rel \in {"ledgers", "user_ledgers", "transactions", "user_transactions"} :
       Rows(last.pre[rel]) # {}
  /\ Rows(db.transactions) # Rows(last.pre.transactions)
  /\ Rows(db.user_transactions) # Rows(last.pre.user_transactions)

Payer(d, t) == (CHOOSE r \in Rows(d.transactions) : r.transaction_id = t).payer_id

LinkedToTx(d, u, t) ==
  \E r \in Rows(d.user_transactions) : r.user_id = u /\ r.transaction_id = t

\* C18: for every transaction T stored, with payer P, link_user_to_transaction(T, P)
\* raises IntegrityError and leaves user_transactions as it was; a call of
\* link_user_to_transaction succeeds exactly when the user exists, the transaction
\* exists and the pair is not linked yet, and otherwise raises IntegrityError and
\* changes nothing.
C18_PayerAlreadyLinked ==
  /\ \A t \in TxIds :
       TxExists(db, t) =>
         LET r == link_user_to_transaction(db, t, Payer(db, t))
         IN  r.err = IntegrityError /\ r.db.user_transactions = db.user_transactions
  /\ last.op = "link_user_to_transaction" =>
       LET d == last.pre
           t == last.args.transaction_id
           u == last.args.user_id
       IN  /\ last.err = OK <=> (UserExists(d, u) /\ TxExists(d, t) /\ ~LinkedToTx(d, u, t))
           /\ last.err # OK => last.err = IntegrityError /\ db = d
           /\ (TxExists(d, t) /\ u = Payer(d, t)) => last.err = IntegrityError

\* C18 witness: link_user_to_transaction was called with the payer of a stored
\* transaction, after other calls had been made since the transaction was recorded
\* (another user is linked to it).
C18_Witness ==
  /\ last.op = "link_user_to_transaction"
  /\ TxExists(last.pre, last.args.transaction_id)
  /\ last.args.user_id = Payer(last.pre, last.args.transaction_id)
  /\ last.err = IntegrityError
  /\ \E u \in UserIds :
       u # last.args.user_id /\ LinkedToTx(db, u, last.args.transaction_id)

\* C19: compute_expense of a ledger that does not exist raises nothing and returns
\* zero, which is what it returns for an existing ledger without transactions.
C19_AbsentLedgerIsZero ==
  /\ (last.op = "compute_expense" /\ ~LedgerExists(last.pre, last.args.ledger_id))
       => last.err = OK /\ last.val.total = 0
  /\ \A absent, empty \in LedgerIds :
       (/\ ~LedgerExists(db, absent)
        /\ LedgerExists(db, empty)
        /\ OfLedger(db.transactions, empty) = {})
         => LET a == compute_expense(db, absent)
                e == compute_expense(db, empty)
            IN  a.err = e.err /\ a.val = e.val

\* C19 witness: compute_expense was called for a ledger that does not exist while
\* the other ledger exists and has a transaction.
C19_Witness ==
  /\ last.op = "compute_expense"
  /\ ~LedgerExists(db, last.args.ledger_id)
  /\ last.val.total = 0
  /\ Rows(db.transactions) # {}

\* C19 witness of the comparison: one ledger does not exist, the other exists and
\* has no transaction.
C19_AbsentAndEmpty ==
  \E absent, empty \in LedgerIds :
    /\ ~LedgerExists(db, absent)
    /\ LedgerExists(db, empty)
    /\ OfLedger(db.transactions, empty) = {}
    /\ last.op = "compute_expense"
    /\ last.args.ledger_id = empty

(***************************************************************************)
(* SpecInfo: get_user_info statement by statement, next to callers that    *)
(* register users, create, link and delete ledgers.  get_user_info reads   *)
(* the user, the ledgers created and the ledgers joined with three SELECTs *)
(* of one connection, outside any transaction, and then calls              *)
(* get_ledger_info for each ledger in turn, each call with a connection of *)
(* its own and two SELECTs.  Every SELECT reads the database committed at  *)
(* that moment.  While another connection holds the database exclusively   *)
(* to commit, a reader waits, and busy_timeout may run out: the SELECT     *)
(* then raises "database is locked".  A ledger is created under a name     *)
(* made of its identifier, so that a summary tells which ledger it is of.  *)
(***************************************************************************)
LedgerNameOf(ledger_id) == <<"L">> \o ZeroPad(ledger_id, 1)

InfoAddLedger(p) ==
  /\ pc[p] = "idle"
  /\ \E id \in LedgerIds, u \in UserIds :
       Statement(p, add_ledger(Working(p), id, Instants[1], u, Some(LedgerNameOf(id))),
                 "commit", NoLoc)

InfoLinkUserToLedger(p) ==
  /\ pc[p] = "idle"
  /\ \E l \in LedgerIds, u \in UserIds :
       Statement(p, InsertUserLedgers(Working(p), [user_id |-> u, ledger_id |-> l]),
                 "commit", NoLoc)

InfoDeleteLedger(p) ==
  /\ pc[p] = "idle"
  /\ \E l \in LedgerIds : Statement(p, DeleteLedgers(Working(p), l), "commit", NoLoc)

\* another connection holds the database exclusively
Locked(p) == \E q \in Procs : q # p /\ pc[q] = "commit"

\* get_user_info has raised e, or returned v, after the calls of get_ledger_info in reads
Returned(user_id, e, v, reads) ==
  [op |-> "get_user_info", user_id |-> user_id, err |-> e, val |-> v, reads |-> reads]

\* SELECT user_name FROM users
GetUserInfoUser(p) ==
  /\ pc[p] = "idle"
  /\ \E u \in UserIds :
       LET row == SelectUserName(db, u)
       IN  IF row = <<>>
           THEN Goto(p, "returned", Returned(u, UserNotFound, NoVal, <<>>))
           ELSE Goto(p, "get_user_info_creator",
                     [op |-> "get_user_info", user_id |-> u, user_name |-> row[1]])
  /\ UNCHANGED <<db, last, writer, wdb>>

\* SELECT ledger_id FROM ledgers
GetUserInfoCreator(p) ==
  /\ pc[p] = "get_user_info_creator"
  /\ Goto(p, "get_user_info_joined",
          [op |-> "get_user_info", user_id |-> loc[p].user_id,
           user_name |-> loc[p].user_name,
           creator_ledgers |-> SelectCreatorLedgers(db, loc[p].user_id)])
  /\ UNCHANGED <<db, last, writer, wdb>>

\* SELECT ledger_id FROM user_ledgers; the with-block ends
GetUserInfoJoined(p) ==
  /\ pc[p] = "get_user_info_joined"
  /\ LET all_ledgers == loc[p].creator_ledgers
                          \cup SelectJoinedLedgers(db, loc[p].user_id)
     IN  Goto(p, "get_user_info_ledger",
              [op |-> "get_user_info", user_id |-> loc[p].user_id,
               user_name |-> loc[p].user_name,
               all_ledgers |-> sorted(all_ledgers),
               row |-> <<>>, ledgers_info |-> <<>>, reads |-> <<>>])
  /\ UNCHANGED <<db, last, writer, wdb>>

\* one of the three SELECTs of the with-block raises "database is locked"
GetUserInfoBusy(p) ==
  /\ Locked(p)
  /\ \/ /\ pc[p] = "idle"
        /\ \E u \in UserIds :
             Goto(p, "returned", Returned(u, DatabaseLocked, NoVal, <<>>))
     \/ /\ pc[p] \in {"get_user_info_creator", "get_user_info_joined"}
        /\ Goto(p, "returned", Returned(loc[p].user_id, DatabaseLocked, NoVal, <<>>))
  /\ UNCHANGED <<db, last, writer, wdb>>

\* Turn that lets every exception of get_ledger_info out of get_user_info
Turn_NoExcept(l, one) ==
  LET lid == l.all_ledgers[Len(l.reads) + 1]
      reads == Append(l.reads, [ledger_id |-> lid, err |-> one.err])
  IN  IF one.err = OK
      THEN [pc |-> "get_user_info_ledger",
            loc |-> [l EXCEPT !.ledgers_info = Append(@, one.val),
                              !.row = <<>>, !.reads = reads]]
      ELSE [pc |-> "returned", loc |-> Returned(l.user_id, one.err, NoVal, reads)]

\* one turn of `for lid in sorted(all_ledgers)`, in which get_ledger_info(lid)
\* returned or raised `one`: try: append; except sqlite3.OperationalError: continue
Turn(l, one) ==
  LET lid == l.all_ledgers[Len(l.reads) + 1]
      reads == Append(l.reads, [ledger_id |-> lid, err |-> one.err])
  IN  IF one.err = OK
      THEN [pc |-> "get_user_info_ledger",
            loc |-> [l EXCEPT !.ledgers_info = Append(@, one.val),
                              !.row = <<>>, !.reads = reads]]
      ELSE IF one.err \in OperationalError
      THEN [pc |-> "get_user_info_ledger",
            loc |-> [l EXCEPT !.row = <<>>, !.reads = reads]]
      ELSE [pc |-> "returned", loc |-> Returned(l.user_id, one.err, NoVal, reads)]

\* get_ledger_info(lid): SELECT ... FROM ledgers
GetUserInfoLedger(p) ==
  /\ pc[p] = "get_user_info_ledger"
  /\ Len(loc[p].reads) < Len(loc[p].all_ledgers)
  /\ LET lid == loc[p].all_ledgers[Len(loc[p].reads) + 1]
         row == SelectLedger(db, lid)
     IN  \/ /\ Locked(p)
            /\ LET t == Turn(loc[p], Raise(DatabaseLocked, db)) IN Goto(p, t.pc, t.loc)
         \/ /\ row = <<>>
            /\ LET t == Turn(loc[p], Raise(LedgerNotFound, db)) IN Goto(p, t.pc, t.loc)
         \/ /\ row # <<>>
            /\ Goto(p, "get_user_info_users", [loc[p] EXCEPT !.row = row])
  /\ UNCHANGED <<db, last, writer, wdb>>

\* get_ledger_info(lid): SELECT user_id FROM user_ledgers, and the summary
GetUserInfoUsers(p) ==
  /\ pc[p] = "get_user_info_users"
  /\ LET lid == loc[p].all_ledgers[Len(loc[p].reads) + 1]
         info == LedgerSummary(loc[p].row[1], SelectLedgerUsers(db, lid))
     IN  \/ /\ Locked(p)
            /\ LET t == Turn(loc[p], Raise(DatabaseLocked, db)) IN Goto(p, t.pc, t.loc)
         \/ LET t == Turn(loc[p], Return(info, db)) IN Goto(p, t.pc, t.loc)
  /\ UNCHANGED <<db, last, writer, wdb>>

\* the loop is over: return {"user_name": ..., "ledgers": ledgers_info}
GetUserInfoReturn(p) ==
  /\ pc[p] = "get_user_info_ledger"
  /\ Len(loc[p].reads) = Len(loc[p].all_ledgers)
  /\ Goto(p, "returned",
          Returned(loc[p].user_id, OK,
                   [user_name |-> loc[p].user_name, ledgers |-> loc[p].ledgers_info],
                   loc[p].reads))
  /\ UNCHANGED <<db, last, writer, wdb>>

NextInfo ==
  \E p \in Procs :
    \/ ConcRegisterUser(p)
    \/ InfoAddLedger(p)
    \/ InfoLinkUserToLedger(p)
    \/ InfoDeleteLedger(p)
    \/ Commit(p)
    \/ GetUserInfoUser(p)
    \/ GetUserInfoCreator(p)
    \/ GetUserInfoJoined(p)
    \/ GetUserInfoBusy(p)
    \/ GetUserInfoLedger(p)
    \/ GetUserInfoUsers(p)
    \/ GetUserInfoReturn(p)
    \/ ConcResult(p)

SpecInfo == Init /\ [][NextInfo]_vars

\* caller p is in get_user_info, in or past the loop over the ledgers
InLoop(p) ==
  /\ loc[p].op = "get_user_info"
  /\ pc[p] \in {"get_user_info_ledger", "get_user_info_users", "returned"}

\* C13: get_user_info leaves a ledger out only when get_ledger_info found that the
\* ledger does not exist; when get_ledger_info fails in any other way, with "database
\* is locked" in particular, get_user_info raises that error to its caller.
C13_OtherFailuresSurfaced ==
  \A p \in Procs :
    InLoop(p) =>
      \A i \in 1..Len(loc[p].reads) :
        loc[p].reads[i].err \notin {OK, LedgerNotFound}
          => pc[p] = "returned" /\ loc[p].err = loc[p].reads[i].err

\* the summaries in infos of the ledger l
SummariesOf(infos, l) == {i \in 1..Len(infos) : infos[i].ledger_name = LedgerNameOf(l)}

====
